---- MODULE Spec2Model ----
(***************************************************************************)
(* Model of src/esp32/main.py: the Tuya local-protocol client              *)
(* (class TuyaDevice and toggle_all_devices).                              *)
(*                                                                         *)
(* Abstractions                                                            *)
(*  - Byte strings are described by their length and their content:        *)
(*    a nonce is a small natural, a key is a natural, an HMAC tag is the   *)
(*    pair (key, message), a ciphertext is the pair (key, plaintext).      *)
(*    AES and SHA-256 are ideal: different inputs give different outputs,  *)
(*    and decrypting under another key gives unusable bytes.               *)
(*  - Protocol versions 3.1, 3.3, 3.4 are written 31, 33, 34.              *)
(*  - Python None is PyNone for numbers and "None" for strings.            *)
(*  - The program is single-threaded: pc is the position of the one call   *)
(*    in progress; a call runs to its return before the next one starts.   *)
(*  - log and negotiated are history fields of a session: the frames built *)
(*    since the current socket object was created, and whether             *)
(*    _negotiate_session_key returned True on it.                          *)
(***************************************************************************)
EXTENDS Integers, Sequences, FiniteSets, TLC

\* ------------------------------------------------------------------ bounds
\* number of TuyaDevice objects handed to toggle_all_devices
NDev == 2
\* frames one session may build before the model stops calling it
MaxSeq == 4
\* calls of toggle_all_devices (button presses) the model follows
MaxRounds == 2
\* remote nonces are drawn from 0..MaxNonce
MaxNonce == 1
\* byte length of a device id (config.json)
DevIdLen == 20

\* --------------------------------------------------------- program values
PyNone == -1
RealKey == 0
LocalNonce == 1
Versions == {31, 33, 34}
\* a list without the last entry: C16 fails on it
NO_PROTOCOL_HEADER_CMDS_Without64 == {10, 16, 18, 9, 3, 4, 5}
\* a list without the status query 10: C13 fails on it
NO_PROTOCOL_HEADER_CMDS_Without10 == {16, 18, 9, 3, 4, 5, 64}
NO_PROTOCOL_HEADER_CMDS == {10, 16, 18, 9, 3, 4, 5, 64}
Nonces == 0..MaxNonce

\* ------------------------------------------------------ CryptoPrimitives
\* hmac_sha256(key, msg): an ideal keyed hash, the tag names its inputs
hmac_sha256(key, msg) == [key |-> key, msg |-> msg]

NoTag == [key |-> PyNone, msg |-> PyNone]

\* bytes([a ^ b for a, b in zip(...)]): bitwise exclusive or
RECURSIVE Xor(_, _)
Xor(a, b) ==
    IF a = 0 THEN b
    ELSE IF b = 0 THEN a
    ELSE ((a + b) % 2) + 2 * Xor(a \div 2, b \div 2)

\* len(_pad(data)) for len(data) = n
PadLen(n) == n + (16 - (n % 16))

\* _encrypt(data)[:16] for a 16-byte data: the first cipher block, an
\* injective function of (key, block), never a value of the pre-shared key
KeyRadix == 2 * (MaxNonce + 1)
EncryptBlock(key, block) == (key + 1) * KeyRadix + block

\* ------------------------------------------------------------- the session
\* TuyaDevice.__init__: a session of protocol version v
\* (trace: whether the history field log is kept for this session)
InitSession(v, trace) ==
    [version |-> v, socket |-> "None", seq |-> 0,
     local_key |-> RealKey, session_key |-> PyNone,
     local_nonce |-> PyNone, remote_nonce |-> PyNone,
     log |-> <<>>, negotiated |-> FALSE, trace |-> trace]

\* a disconnect that leaves the session key active: C2 fails on it
disconnect_KeepsKey(s) ==
    [s EXCEPT !.socket = "None",
              !.local_nonce = PyNone,
              !.remote_nonce = PyNone,
              !.seq = 0,
              !.log = <<>>,
              !.negotiated = FALSE]

\* a disconnect that leaves the sequence counter alone: C5 fails on it
disconnect_KeepsCounter(s) ==
    [s EXCEPT !.socket = "None",
              !.session_key = PyNone,
              !.local_key = RealKey,
              !.local_nonce = PyNone,
              !.remote_nonce = PyNone,
              !.log = <<>>,
              !.negotiated = FALSE]

\* TuyaDevice.disconnect
disconnect(s) ==
    [s EXCEPT !.socket = "None",
              !.session_key = PyNone,
              !.local_key = RealKey,
              !.local_nonce = PyNone,
              !.remote_nonce = PyNone,
              !.seq = 0,
              !.log = <<>>,
              !.negotiated = FALSE]

\* ------------------------------------------------------------ FrameCodec
\* the dictionaries the callers hand to _build_payload
EmptyData == [kind |-> "empty", dp |-> "None"]
StatusData == [kind |-> "ids", dp |-> "None"]
ControlData34(v) == [kind |-> "control34", dp |-> v]
ControlData(v) == [kind |-> "control", dp |-> v]

\* len(json.dumps(True)), len(json.dumps(False))
BoolLen(v) == IF v = "True" THEN 4 ELSE 5

\* len(json.dumps(data).encode('utf-8'))
JsonLen(data) ==
    CASE data.kind = "empty" -> 2
      [] data.kind = "ids" -> 25 + 2 * DevIdLen
      [] data.kind = "control34" -> 58 + BoolLen(data.dp)
      [] data.kind = "control" -> 71 + 2 * DevIdLen + BoolLen(data.dp)

\* the bytes _build_payload selects before encryption (lines 82-89)
SelectBody(s, command, data) ==
    IF command = 3
    THEN [kind |-> "nonce", nonce |-> s.local_nonce, tag |-> NoTag,
          data |-> EmptyData, len |-> 16]
    ELSE IF command = 5
    THEN [kind |-> "hmac", nonce |-> PyNone,
          tag |-> hmac_sha256(RealKey, s.remote_nonce),
          data |-> EmptyData, len |-> 32]
    ELSE IF data.kind # "empty"
    THEN [kind |-> "json", nonce |-> PyNone, tag |-> NoTag,
          data |-> data, len |-> JsonLen(data)]
    ELSE [kind |-> "json", nonce |-> PyNone, tag |-> NoTag,
          data |-> EmptyData, len |-> 2]

\* a counter that skips a number: C4 fails on it
NextSeq_Skips(s) == s.seq + 2

\* The sequence number _build_payload writes into the frame (line 80)
NextSeq(s) == s.seq + 1

\* TuyaDevice._build_payload: the session after the call and the frame.
\* hdr: "inner" = version tag inside the encrypted data, "prefix" =
\* unencrypted tag before it, "none" = no tag.  plen is the length of the
\* payload section, length the declared-length field.
build_payload(s, command, data) ==
    LET Built(frame) ==
            [s |-> [s EXCEPT !.seq = frame.seq,
                             !.log = IF s.trace THEN Append(s.log, frame) ELSE @],
             frame |-> frame]
        Frame(body, tagged, plen) ==
            [seq |-> NextSeq(s), cmd |-> command,
             length |-> IF s.version >= 34 THEN plen + 36 ELSE plen + 8,
             plen |-> plen,
             hdr |-> IF s.version >= 34 THEN (IF tagged THEN "inner" ELSE "none")
                     ELSE IF s.version >= 33
                          THEN (IF tagged THEN "prefix" ELSE "none")
                     ELSE "none",
             key |-> IF s.version >= 33 THEN s.local_key ELSE PyNone,
             body |-> body,
             mac |-> IF s.version >= 34
                     THEN [kind |-> "hmac", key |-> s.local_key]
                     ELSE [kind |-> "crc32", key |-> PyNone],
             nego |-> s.negotiated, sent |-> FALSE, answered |-> FALSE]
        Sized(body, tagged) ==
            Frame(body, tagged,
                  IF s.version >= 34
                  THEN PadLen(body.len + (IF tagged THEN 15 ELSE 0))
                  ELSE IF s.version >= 33
                       THEN PadLen(body.len) + (IF tagged THEN 15 ELSE 0)
                  ELSE body.len)
    IN  Built(Sized(SelectBody(s, command, data),
                    command \notin NO_PROTOCOL_HEADER_CMDS))

\* socket.send(payload) returned: the frame built last is on the wire
send(s) ==
    IF s.log = <<>> THEN s ELSE [s EXCEPT !.log[Len(s.log)].sent = TRUE]

\* the frames sent on the current connection that no response has answered;
\* a device never answers the command-5 confirmation
Outstanding(s) ==
    {i \in 1..Len(s.log) :
        s.log[i].sent /\ ~s.log[i].answered /\ s.log[i].cmd # 5}

\* _receive_response returned a non-empty buffer, the peer's response to
\* the frame at position i of the log
received(s, i) ==
    IF i \in 1..Len(s.log) THEN [s EXCEPT !.log[i].answered = TRUE] ELSE s

\* data[start:stop] of a buffer of n bytes: the length of the slice
SliceLen(n, start, stop) ==
    LET e0 == IF stop < 0 THEN (IF n + stop < 0 THEN 0 ELSE n + stop) ELSE stop
        e == IF e0 > n THEN n ELSE e0
    IN IF e > start THEN e - start ELSE 0

\* ------------------------------------------------------ SessionNegotiator
\* What the peer and the network do during one negotiation:
\*   send3, send5  whether socket.send of the command-3 / command-5 frame
\*                 returns (TRUE) or raises (FALSE)
\*   recv          "raise": _receive_response raises; "bytes": it returns
\*   n             len(response); cmd, declen: its command and length fields
\*   ctlen         the encrypted bytes present after byte 20
\*   key           the key the peer encrypted them with
\*   ptlen, nonce, tag   the plaintext: its length, bytes 0..15, bytes 16..47
NegoReply(recv, n, cmd, declen, ctlen, key, ptlen, nonce, tag) ==
    [recv |-> recv, n |-> n, cmd |-> cmd, declen |-> declen, ctlen |-> ctlen,
     key |-> key, ptlen |-> ptlen, nonce |-> nonce, tag |-> tag]

\* a well-formed command-4 frame: header, return code, ciphertext, HMAC,
\* suffix, with the declared length that goes with it
GoodReply(cmd, key, ptlen, nonce, tag) ==
    NegoReply("bytes", 20 + PadLen(ptlen) + 36, cmd, 4 + PadLen(ptlen) + 36,
              PadLen(ptlen), key, ptlen, nonce, tag)

\* a key the session never holds
WrongKey == RealKey + 1

\* the peer's possible replies to the command-3 frame of session s
NegoReplies(s) ==
    LET good == hmac_sha256(RealKey, LocalNonce)
        tags == {good, hmac_sha256(RealKey, 0), hmac_sha256(WrongKey, LocalNonce)}
    IN  {NegoReply("raise", 0, 0, 0, 0, RealKey, 0, 0, good),
         NegoReply("bytes", 0, 0, 0, 0, RealKey, 0, 0, good),
         NegoReply("bytes", 20, 4, 4, 0, RealKey, 0, 0, good)}
        \cup {GoodReply(c, k, 48, rn, tg) :
                c \in {4, 9}, k \in {RealKey, WrongKey}, rn \in Nonces, tg \in tags}
        \cup {GoodReply(4, RealKey, 32, rn, good) : rn \in Nonces}
        \cup {[GoodReply(4, RealKey, 48, rn, good) EXCEPT !.declen = @ - cut] :
                rn \in Nonces, cut \in {4, 16}}

\* the reply on which step 3 is reached
GoodReplies(s) ==
    {r \in NegoReplies(s) :
        /\ r.recv = "bytes" /\ r.n >= 28 /\ r.cmd = 4
        /\ r.declen = 4 + r.ctlen + 36 /\ r.key = s.local_key
        /\ r.ptlen >= 48 /\ r.tag = hmac_sha256(RealKey, LocalNonce)}

\* the scenarios of one negotiation: a send that raises is listed once,
\* whatever the fields it never reads
NegoEnvs(s) ==
    {e \in [send3 : BOOLEAN, reply : NegoReplies(s), send5 : BOOLEAN] :
        /\ ~e.send3 => e.send5 /\ e.reply.recv = "raise"
        /\ ~e.send5 => e.send3 /\ e.reply \in GoodReplies(s)}

\* the scenarios of one connect(): the TCP outcome and, when the
\* negotiation runs, its scenario
ConnectEnvs(s) ==
    LET quiet == [send3 |-> FALSE, send5 |-> TRUE,
                  reply |-> NegoReply("raise", 0, 0, 0, 0, RealKey, 0, 0,
                                      hmac_sha256(RealKey, LocalNonce))]
    IN  {[tcp |-> tcp, nego |-> quiet] : tcp \in {"create_error", "connect_error"}}
        \cup {[tcp |-> "ok", nego |-> e] :
                e \in IF s.version >= 34 THEN NegoEnvs(s) ELSE {quiet}}

\* _decrypt of the slice response[20:16+payload_len-36] under the active
\* key: the plaintext when the slice is the whole ciphertext and the key is
\* the peer's; an exception when the slice is empty or no whole number of
\* blocks; otherwise bytes that carry no nonce and no tag (len 0 after
\* _unpad removed what the last byte says)
DecryptReply(s, r) ==
    LET L == SliceLen(r.n, 20, 16 + r.declen - 36)
    IN  IF L = 0 \/ L % 16 # 0
        THEN [raised |-> TRUE, len |-> 0, nonce |-> PyNone, tag |-> NoTag]
        ELSE IF L = r.ctlen /\ r.key = s.local_key
        THEN [raised |-> FALSE, len |-> r.ptlen, nonce |-> r.nonce, tag |-> r.tag]
        ELSE [raised |-> FALSE, len |-> 0, nonce |-> PyNone, tag |-> NoTag]

\* lines 211-212: the tag the peer must have sent
ExpectedHmac(s) == hmac_sha256(RealKey, s.local_nonce)

\* a step 3 that replaces the active key before it builds the
\* command-5 frame: C15 fails on it
NegotiateStep3_KeyFirst(s, e) ==
    LET Sent(b5) ==
            IF ~e.send5
            THEN [s |-> b5, ok |-> FALSE, why |-> "send_error"]
            ELSE [s |-> [send(b5) EXCEPT !.negotiated = TRUE],
                  ok |-> TRUE, why |-> "negotiated"]
        Derived(sk) ==
            Sent(build_payload([s EXCEPT !.session_key = sk, !.local_key = sk],
                               5, EmptyData).s)
    IN  Derived(EncryptBlock(s.local_key, Xor(s.local_nonce, s.remote_nonce)))

\* lines 216-225: step 3, after the HMAC was verified
NegotiateStep3(s, e) ==
    LET Derived(b5, sk) ==
            [s |-> [send(b5) EXCEPT !.session_key = sk,
                                    !.local_key = sk,
                                    !.negotiated = TRUE],
             ok |-> TRUE, why |-> "negotiated"]
        Sent(b5) ==
            IF ~e.send5
            THEN [s |-> b5, ok |-> FALSE, why |-> "send_error"]
            ELSE Derived(b5, EncryptBlock(b5.local_key,
                                          Xor(b5.local_nonce, b5.remote_nonce)))
    IN  Sent(build_payload(s, 5, EmptyData).s)

\* a step 2 that does not compare the tag: C1 fails on it
NegotiateStep2_NoHmacCheck(s, e) ==
    LET Decrypted(d) ==
            IF d.raised
            THEN [s |-> s, ok |-> FALSE, why |-> "decrypt_error"]
            ELSE IF d.len < 48
            THEN [s |-> s, ok |-> FALSE, why |-> "payload_too_short"]
            ELSE NegotiateStep3([s EXCEPT !.remote_nonce = d.nonce], e)
    IN  Decrypted(DecryptReply(s, e.reply))

\* lines 198-214: step 2, on a response of at least 28 bytes with command 4
NegotiateStep2(s, e) ==
    LET Verified(s2, received_hmac) ==
            IF received_hmac # ExpectedHmac(s2)
            THEN [s |-> s2, ok |-> FALSE, why |-> "hmac_mismatch"]
            ELSE NegotiateStep3(s2, e)
        Decrypted(d) ==
            IF d.raised
            THEN [s |-> s, ok |-> FALSE, why |-> "decrypt_error"]
            ELSE IF d.len < 48
            THEN [s |-> s, ok |-> FALSE, why |-> "payload_too_short"]
            ELSE Verified([s EXCEPT !.remote_nonce = d.nonce], d.tag)
    IN  Decrypted(DecryptReply(s, e.reply))

\* TuyaDevice._negotiate_session_key
negotiate_session_key(s, e) ==
    LET Answered(s3, r) ==
            IF r.n < 28
            THEN [s |-> s3, ok |-> FALSE, why |-> "no_response"]
            ELSE IF r.cmd # 4
            THEN [s |-> s3, ok |-> FALSE, why |-> "unexpected_command"]
            ELSE NegotiateStep2(s3, e)
        Step1(b3, r) ==
            IF ~e.send3
            THEN [s |-> b3, ok |-> FALSE, why |-> "send_error"]
            ELSE IF r.recv = "raise"
            THEN [s |-> send(b3), ok |-> FALSE, why |-> "recv_error"]
            ELSE IF r.n = 0
            THEN [s |-> send(b3), ok |-> FALSE, why |-> "no_response"]
            ELSE Answered(received(send(b3), Len(b3.log)), r)
    IN  IF s.version < 34
        THEN [s |-> s, ok |-> TRUE, why |-> "not_needed"]
        ELSE Step1(build_payload([s EXCEPT !.local_nonce = LocalNonce],
                                 3, EmptyData).s,
                   e.reply)

\* a connect() that returns failure without disconnect() when the
\* negotiation failed: C14 fails on it
connect_KeepsSocket(s, tcp, e) ==
    LET Opened(s1) ==
            IF s1.version >= 34
            THEN negotiate_session_key(s1, e)
            ELSE [s |-> s1, ok |-> TRUE, why |-> "connected"]
    IN  IF tcp = "create_error"
        THEN [s |-> s, ok |-> FALSE, why |-> "tcp_error"]
        ELSE IF tcp = "connect_error"
        THEN [s |-> [s EXCEPT !.socket = "failed", !.log = <<>>,
                              !.negotiated = FALSE],
              ok |-> FALSE, why |-> "tcp_error"]
        ELSE Opened([s EXCEPT !.socket = "open", !.log = <<>>,
                              !.negotiated = FALSE])

\* ------------------------------------------------------------- Transport
\* TuyaDevice.connect.  tcp: "create_error" = socket.socket() raises,
\* "connect_error" = settimeout or connect raises (the new socket object is
\* already stored in self.socket), "ok" = the TCP connection is open.
connect(s, tcp, e) ==
    LET Negotiated(n) ==
            IF ~n.ok
            THEN [s |-> disconnect(n.s), ok |-> FALSE, why |-> n.why]
            ELSE [s |-> n.s, ok |-> TRUE, why |-> n.why]
        Opened(s1) ==
            IF s1.version >= 34
            THEN Negotiated(negotiate_session_key(s1, e))
            ELSE [s |-> s1, ok |-> TRUE, why |-> "connected"]
    IN  IF tcp = "create_error"
        THEN [s |-> s, ok |-> FALSE, why |-> "tcp_error"]
        ELSE IF tcp = "connect_error"
        THEN [s |-> [s EXCEPT !.socket = "failed", !.log = <<>>,
                              !.negotiated = FALSE],
              ok |-> FALSE, why |-> "tcp_error"]
        ELSE Opened([s EXCEPT !.socket = "open", !.log = <<>>,
                              !.negotiated = FALSE])


\* ------------------------------------------------------- received buffers
\* The JSON texts a peer may put into a response:
\*   "dps_on"    {"dps":{"1":true}}        "dps_off"   {"dps":{"1":false}}
\*   "dps_other" {"dps":{"2":5}}           "obj"       {}
\*   "data_on"   {"data":{"dps":{"1":true}}}
\*   "data_off"  {"data":{"dps":{"1":false}}}
\*   "scalar"    0   (valid JSON, not an object)
\*   "bad"       {oops   (not JSON)
\*   ""          no payload at all (an acknowledgment-only frame)
\* and the bodies _build_payload writes, when a peer sends them back:
\*   "ids"       {"gwId": "...", "devId": "..."}      ("obj" is b'{}')
\*   "c34_on", "c34_off"   the version 3.4 control dictionary
\*   "c_on", "c_off"       the control dictionary of the other versions
\*   "nonce"     the 16 bytes of local_nonce      "tag"   32 bytes of HMAC
Texts == {"dps_on", "dps_off", "dps_other", "obj", "data_on", "data_off",
          "scalar", "bad"}

TextLen(text) ==
    CASE text = "dps_on" -> 18
      [] text = "dps_off" -> 19
      [] text = "dps_other" -> 15
      [] text = "obj" -> 2
      [] text = "data_on" -> 27
      [] text = "data_off" -> 28
      [] text = "scalar" -> 1
      [] text = "bad" -> 5
      [] text = "ids" -> JsonLen(StatusData)
      [] text = "c34_on" -> JsonLen(ControlData34("True"))
      [] text = "c34_off" -> JsonLen(ControlData34("False"))
      [] text = "c_on" -> JsonLen(ControlData("True"))
      [] text = "c_off" -> JsonLen(ControlData("False"))
      [] text = "nonce" -> 16
      [] text = "tag" -> 32
      [] OTHER -> 0

\* A frame as the peer wrote it: declared length, return code, version tag
\* ("3.4" inside the encrypted data, "3.3" before it, "none"), encryption
\* key (PyNone: not encrypted), JSON text, and sfx, the bytes of checksum
\* and suffix that follow the payload.
WireFrame(declen, retcode, hdr, key, text, sfx) ==
    [declen |-> declen, retcode |-> retcode, hdr |-> hdr, key |-> key,
     text |-> text, sfx |-> sfx]

\* the bytes of the payload section of a wire frame
PayLen(w) ==
    IF w.text = "" THEN 0
    ELSE IF w.key = PyNone
    THEN TextLen(w.text) + (IF w.hdr = "none" THEN 0 ELSE 15)
    ELSE IF w.hdr = "3.4" THEN PadLen(15 + TextLen(w.text))
    ELSE IF w.hdr = "3.3" THEN 15 + PadLen(TextLen(w.text))
    ELSE PadLen(TextLen(w.text))

\* the bytes of a whole wire frame: 16 header, 4 return code, payload, sfx
ByteLen(w) == 20 + PayLen(w) + w.sfx

\* a received buffer: the frames in it and the number of bytes received
Buffer(frames, n) == [frames |-> frames, n |-> n]

EmptyBuffer == Buffer(<<>>, 0)

\* a parser that takes the version 3.4 trailer for every version: C11
\* fails on it
SuffixLen_Always36(s) == 36

\* suffix_len of _parse_response (line 132)
SuffixLen(s) == IF s.version >= 34 THEN 36 ELSE 8

\* ----------------------------------------------------- _parse_response
\* a parse result: err is the "error" entry ("" when there is none), json
\* the text that json.loads accepted ("ack" for the bare success result)
Result(err, json, retcode) == [err |-> err, json |-> json, retcode |-> retcode]

\* the text left after lines 154-159 removed the tag, the zero bytes and
\* everything before the first brace
StripTag(text) == IF text \in {"scalar", "nonce", "tag"} THEN "bad" ELSE text

\* lines 146-167: the text handed to json.loads, "bad" for bytes that are
\* no JSON text, or "raise" when _decrypt raises.  L is the length of the
\* payload slice, w the frame it was cut from.
DecodePayload(s, w, L) ==
    LET whole == L = PayLen(w)
    IN  IF s.version >= 34
        THEN IF L % 16 # 0 THEN "raise"
             ELSE IF whole /\ w.key = s.local_key /\ w.hdr # "3.3"
             THEN (IF w.hdr = "3.4" THEN StripTag(w.text) ELSE w.text)
             ELSE "bad"
        ELSE IF s.version >= 33
        THEN LET stripped == w.hdr = "3.3" /\ L >= 15
                 C == IF stripped THEN L - 15 ELSE L
             IN  IF C = 0 \/ C % 16 # 0 THEN "raise"
                 ELSE IF whole /\ w.key = s.local_key /\ w.hdr # "3.4"
                 THEN w.text
                 ELSE "bad"
        ELSE IF whole /\ w.key = PyNone /\ w.hdr = "none"
             THEN w.text
             ELSE "bad"

\* the texts on which json.loads(payload.decode('utf-8')) raises
NotJson == {"bad", "nonce", "tag"}

\* TuyaDevice._parse_response
RECURSIVE parse_response(_, _)
parse_response(s, data) ==
    LET Parsed(text) ==
            IF text = "raise" THEN Result("Decryption failed", "", 0)
            ELSE IF text \in NotJson THEN Result("JSON parse failed", "", 0)
            ELSE Result("", text, 0)
        Sliced(w, payload_len, L) ==
            IF L = 0
            THEN IF data.n > (16 + payload_len) + 28
                 THEN parse_response(s, Buffer(Tail(data.frames),
                                               data.n - (16 + payload_len)))
                 ELSE Result("", "ack", w.retcode)
            ELSE Parsed(DecodePayload(s, w, L))
        Unpacked(w) ==
            Sliced(w, w.declen,
                   SliceLen(data.n, 20, 16 + w.declen - SuffixLen(s)))
    IN  IF data.n < 20
        THEN Result("Response too short", "", 0)
        ELSE Unpacked(data.frames[1])

\* the value of result["dps"]["1"] / result["data"]["dps"]["1"]
DpOf(json) ==
    IF json \in {"dps_on", "data_on"} THEN "True"
    ELSE IF json \in {"dps_off", "data_off"} THEN "False"
    ELSE "None"

\* the response frame that matches the session: its version's layout, its
\* active key, the declared length that goes with the bytes
PeerFrame(s, key, tagged, text, retcode) ==
    LET hdr == IF ~tagged \/ s.version < 33 THEN "none"
               ELSE IF s.version >= 34 THEN "3.4" ELSE "3.3"
        k == IF s.version >= 33 THEN key ELSE PyNone
        w0 == WireFrame(0, retcode, hdr, k, text, SuffixLen(s))
    IN [w0 EXCEPT !.declen = 4 + PayLen(w0) + w0.sfx]

\* the buffers _receive_response may return to session s: nothing, a
\* fragment, an acknowledgment, whole frames of every text under the
\* session's key (untagged, and tagged for two of them), a frame under
\* another key, a frame cut short inside its payload, a frame without the
\* last byte of its suffix, a frame whose declared length is 4 too small,
\* an acknowledgment followed by a second frame
Buffers(s) ==
    LET mine == {PeerFrame(s, s.local_key, FALSE, tx, 0) : tx \in Texts}
                \cup {PeerFrame(s, s.local_key, TRUE, tx, 0) :
                        tx \in {"dps_off", "scalar"}}
        other == PeerFrame(s, WrongKey, TRUE, "dps_on", 0)
        one == PeerFrame(s, s.local_key, TRUE, "dps_on", 0)
        ack == PeerFrame(s, s.local_key, FALSE, "", 0)
        full(w) == Buffer(<<w>>, ByteLen(w))
    IN  {EmptyBuffer, Buffer(<<ack>>, 10), full(ack), full(other),
         Buffer(<<one>>, ByteLen(one) - one.sfx - 1),
         Buffer(<<one>>, ByteLen(one) - 1),
         full([one EXCEPT !.declen = @ - 4])}
        \cup {full(w) : w \in mine}
        \cup {Buffer(<<ack, PeerFrame(s, s.local_key, TRUE, tx, 0)>>,
                     ByteLen(ack)
                     + ByteLen(PeerFrame(s, s.local_key, TRUE, tx, 0))) :
                tx \in {"dps_on", "dps_off", "bad"}}

\* What the peer and the network do during one request/response exchange:
\*   send   whether socket.send returns (TRUE) or raises (FALSE)
\*   recv   "raise": _receive_response raises (settimeout fails before
\*          response is bound, line 233); "bytes": it returns buf
\*   stale  the bytes received are the late response to the oldest earlier
\*          frame still unanswered on this connection, if there is one
ExchangeEnv(sendOk, recv, buf, stale) ==
    [send |-> sendOk, recv |-> recv, buf |-> buf, stale |-> stale]

\* the scenarios of one exchange on session s: a send or receive that
\* raises is listed once; on a socket that never connected send raises
ExchangeEnvs(s) ==
    {ExchangeEnv(FALSE, "bytes", EmptyBuffer, FALSE)}
    \cup IF s.socket # "open" THEN {}
         ELSE {ExchangeEnv(TRUE, "raise", EmptyBuffer, FALSE)}
              \cup {ExchangeEnv(TRUE, "bytes", b, FALSE) : b \in Buffers(s)}
              \cup IF Outstanding(s) = {} THEN {}
                   ELSE {ExchangeEnv(TRUE, "bytes", b, TRUE) :
                            b \in Buffers(s) \ {EmptyBuffer}}

\* _receive_response returned fewer bytes than 16 plus the length the
\* first frame declares
Short(x) ==
    /\ x.send /\ x.recv = "bytes" /\ x.buf.n > 0
    /\ x.buf.n < 16 + x.buf.frames[1].declen

\* the log position of the frame that the received bytes answer
AnsweredIndex(s, stale) ==
    LET earlier == Outstanding(s) \ {Len(s.log)}
    IN  IF stale /\ earlier # {}
        THEN CHOOSE i \in earlier : \A j \in earlier : i <= j
        ELSE Len(s.log)

\* payload = _build_payload(...); socket.send(payload);
\* response = _receive_response()   (lines 298-300, 338-340, 434-436)
exchange(s, command, data, x) ==
    LET Transfer(b) ==
            IF b.socket # "open" \/ ~x.send
            THEN [s |-> b, raised |-> TRUE, why |-> "send_error",
                  buf |-> EmptyBuffer]
            ELSE IF x.recv = "raise"
            THEN [s |-> send(b), raised |-> TRUE, why |-> "recv_error",
                  buf |-> EmptyBuffer]
            ELSE IF x.buf.n = 0
            THEN [s |-> send(b), raised |-> FALSE, why |-> "no_response",
                  buf |-> EmptyBuffer]
            ELSE [s |-> received(send(b), AnsweredIndex(send(b), x.stale)),
                  raised |-> FALSE, why |-> "response", buf |-> x.buf]
    IN  Transfer(build_payload(s, command, data).s)

\* ---------------------------------------------------------- DeviceSession
\* TuyaDevice.status, lines 290-311 (after the lazy connect of line 287)
status_body(s, x) ==
    LET Value(r, result) ==
            IF r.raised \/ r.buf.n = 0
            THEN [s |-> r.s, value |-> "None", why |-> r.why]
            ELSE IF result.json = "scalar"
            THEN [s |-> r.s, value |-> "None", why |-> "exception"]
            ELSE IF result.err = ""
                    /\ result.json \in {"dps_on", "dps_off", "dps_other"}
            THEN [s |-> r.s, value |-> DpOf(result.json), why |-> "ok"]
            ELSE IF result.json \in {"data_on", "data_off"}
            THEN [s |-> r.s, value |-> DpOf(result.json), why |-> "ok"]
            ELSE [s |-> r.s, value |-> "None",
                  why |-> IF result.err # "" THEN "parse_error"
                          ELSE "no_datapoint"]
        Parsed(r) == Value(r, parse_response(r.s, r.buf))
    IN  Parsed(exchange(s, IF s.version >= 34 THEN 16 ELSE 10,
                        IF s.version >= 34 THEN EmptyData ELSE StatusData, x))

\* a test that takes every parsed result for a success: C7 fails on it
NoErrorEntry_Always(result) == TRUE

\* "error" not in result (lines 344, 442), for a result that is a dictionary
NoErrorEntry(result) == result.err = ""

\* not current_state / not valid_states[0]
PyNot(v) == IF v = "True" THEN "False" ELSE "True"

\* the control command and payload of lines 321-336 and 418-432
ControlCommand(s) == IF s.version >= 34 THEN 13 ELSE 7
ControlPayload(s, state) ==
    IF s.version >= 34 THEN ControlData34(state) ELSE ControlData(state)

\* TuyaDevice.toggle, lines 319-349 (after status() returned current_state)
toggle_body(s, current_state, x) ==
    LET Value(r, result) ==
            IF r.raised
            THEN [s |-> disconnect(r.s), value |-> "False", why |-> r.why,
                  result |-> Result("", "", 0)]
            ELSE IF r.buf.n = 0
            THEN [s |-> r.s, value |-> "False", why |-> "no_response",
                  result |-> Result("", "", 0)]
            ELSE IF result.json = "scalar"
            THEN [s |-> disconnect(r.s), value |-> "False", why |-> "exception",
                  result |-> result]
            ELSE IF NoErrorEntry(result)
            THEN [s |-> r.s, value |-> "True", why |-> "ok", result |-> result]
            ELSE [s |-> r.s, value |-> "False", why |-> "parse_error",
                  result |-> result]
        Parsed(r) == Value(r, parse_response(r.s, r.buf))
    IN  Parsed(exchange(s, ControlCommand(s),
                        ControlPayload(s, IF current_state = "None" THEN "True"
                                          ELSE PyNot(current_state)),
                        x))

\* ------------------------------------------------------- FleetCoordinator
\* a selection that turns the devices off when their statuses differ: C6
\* fails on it
target_state_MixedOff(states) ==
    LET valid_states == {states[i] : i \in {j \in 1..Len(states) : states[j] # "None"}}
    IN  IF valid_states = {} THEN "None"
        ELSE IF Cardinality(valid_states) > 1 THEN "False"
        ELSE PyNot(CHOOSE v \in valid_states : TRUE)

\* toggle_all_devices, lines 398-409: the target state for the statuses
\* collected, "None" when no device responded
target_state(states) ==
    LET valid_states == {states[i] : i \in {j \in 1..Len(states) : states[j] # "None"}}
    IN  IF valid_states = {} THEN "None"
        ELSE IF Cardinality(valid_states) > 1 THEN "True"
        ELSE PyNot(CHOOSE v \in valid_states : TRUE)

\* toggle_all_devices, lines 417-449: the control exchange with one device
\* that holds a socket object
apply_body(s, target, x) ==
    LET Value(r, result, frame) ==
            IF r.raised
            THEN [s |-> disconnect(r.s), counted |-> FALSE, raised |-> TRUE,
                  responded |-> FALSE, result |-> Result("", "", 0),
                  frame |-> frame]
            ELSE IF r.buf.n = 0
            THEN [s |-> r.s, counted |-> FALSE, raised |-> FALSE,
                  responded |-> FALSE, result |-> Result("", "", 0),
                  frame |-> frame]
            ELSE IF result.json = "scalar"
            THEN [s |-> disconnect(r.s), counted |-> FALSE, raised |-> TRUE,
                  responded |-> TRUE, result |-> result, frame |-> frame]
            ELSE IF NoErrorEntry(result)
            THEN [s |-> r.s, counted |-> TRUE, raised |-> FALSE,
                  responded |-> TRUE, result |-> result, frame |-> frame]
            ELSE [s |-> r.s, counted |-> FALSE, raised |-> FALSE,
                  responded |-> TRUE, result |-> result, frame |-> frame]
        Parsed(r) ==
            Value(r, parse_response(r.s, r.buf),
                  build_payload(s, ControlCommand(s),
                                ControlPayload(s, target)).frame)
    IN  Parsed(exchange(s, ControlCommand(s), ControlPayload(s, target), x))

\* ------------------------------------------------------------------ state
VARIABLES
    dev,            \* the TuyaDevice objects, by position in the device list
    pc,             \* position of the call in progress, "idle" between calls
    arg,            \* the device of the call in progress / the loop index
    current_state,  \* toggle(): the local current_state
    states,         \* toggle_all_devices(): the local list states
    target,         \* toggle_all_devices(): the local target_state
    success_count,  \* toggle_all_devices(): the local success_count
    outcomes,       \* history: what the apply loop did with each device
    rounds,         \* history: the calls of toggle_all_devices so far
    ret,            \* history: the call that returned last and its result
    built,          \* codec: the frame _build_payload returned last
    rx,             \* codec: what _receive_response returned last
    parsed          \* codec: what _parse_response returned last

\* the variables of the codec exercised on its own
codec == <<built, rx, parsed>>

vars == <<dev, pc, arg, current_state, states, target, success_count,
          outcomes, rounds, ret, built, rx, parsed>>

DevIds == DOMAIN dev

\* (prev: for a direct connect(), the call that returned before it, for a
\* disconnect() the state it was called in; short: the response the result
\* was computed from was shorter than it declared)
NoRet ==
    [op |-> "none", d |-> 0, value |-> "None", why |-> "", prev |-> "",
     short |-> FALSE]
Return(op, d, value, why) ==
    [op |-> op, d |-> d, value |-> value, why |-> why, prev |-> "",
     short |-> FALSE]
PyBool(b) == IF b THEN "True" ELSE "False"

\* the state disconnect() is called in
CalledFrom(s) ==
    IF s.negotiated THEN "disconnect_negotiated"
    ELSE IF s.socket = "open" THEN "disconnect_open"
    ELSE IF s.socket = "failed" THEN "disconnect_failed"
    ELSE "disconnect_unconnected"

\* the session may still build k frames
Room(s, k) == s.seq + k <= MaxSeq
\* frames a lazy connect of s may build
ConnectFrames(s) == IF s.socket = "None" /\ s.version >= 34 THEN 2 ELSE 0

\* ------------------------------------------------- _receive_response
\* What the socket does during one _receive_response is a plan of reads:
\* each recv(1024) in turn delivers k > 0 bytes (k <= 1024), delivers b''
\* (0: the peer closed) or raises (-1: timeout or socket error).  A plan
\* that runs out stands for a read that times out.
RECURSIVE ReadLoop(_, _, _)
\* lines 244-248: response holds n bytes, the loop wants expected_len
ReadLoop(n, expected_len, reads) ==
    IF n >= expected_len THEN n
    ELSE IF reads = <<>> \/ Head(reads) <= 0 THEN n
    ELSE ReadLoop(n + Head(reads), expected_len, Tail(reads))

\* TuyaDevice._receive_response: it raises (settimeout raised before
\* response was bound, so "return response" fails), or returns n bytes.
\* declared is the length field of the first frame the peer wrote.
receive_response(settimeout, declared, reads) ==
    IF ~settimeout THEN [raised |-> TRUE, n |-> 0]
    ELSE IF reads = <<>> \/ Head(reads) <= 0
    THEN [raised |-> FALSE, n |-> 0]
    ELSE IF Head(reads) >= 16
    THEN [raised |-> FALSE,
          n |-> ReadLoop(Head(reads), 16 + declared, Tail(reads))]
    ELSE [raised |-> FALSE, n |-> Head(reads)]

RECURSIVE TotalLen(_)
\* the bytes of a sequence of wire frames
TotalLen(frames) ==
    IF frames = <<>> THEN 0 ELSE ByteLen(Head(frames)) + TotalLen(Tail(frames))

\* the read plans tried on the frames the peer wrote: everything in one
\* chunk, a first read that raises or finds the peer closed, a fragment
\* shorter than a header, a header followed by the rest, by a timeout or by
\* the close, a timeout or a close one byte before the end, a timeout just
\* after the return code
ReadPlans(frames) ==
    LET Plans(T) ==
            {<<T>>, <<-1>>, <<0>>, <<10, T - 10>>, <<16, T - 16>>, <<16, -1>>,
             <<16, 0>>, <<T - 1, -1>>, <<16, T - 17, 0>>, <<20, -1>>}
    IN  Plans(TotalLen(frames))

\* the buffer that holds the first n bytes of what the peer wrote
Received(frames, n) ==
    IF n = 0 THEN EmptyBuffer
    ELSE IF n <= ByteLen(frames[1]) THEN Buffer(<<frames[1]>>, n)
    ELSE Buffer(frames, n)

\* the text of the bytes _build_payload selected (lines 82-89)
TextOf(body) ==
    CASE body.kind = "nonce" -> "nonce"
      [] body.kind = "hmac" -> "tag"
      [] body.data.kind = "empty" -> "obj"
      [] body.data.kind = "ids" -> "ids"
      [] body.data.kind = "control34" ->
            (IF body.data.dp = "True" THEN "c34_on" ELSE "c34_off")
      [] body.data.kind = "control" ->
            (IF body.data.dp = "True" THEN "c_on" ELSE "c_off")

\* json.loads of a text that json.dumps wrote: the dictionary again
DataOf(text) ==
    CASE text = "obj" -> EmptyData
      [] text = "ids" -> StatusData
      [] text = "c34_on" -> ControlData34("True")
      [] text = "c34_off" -> ControlData34("False")
      [] text = "c_on" -> ControlData("True")
      [] text = "c_off" -> ControlData("False")
      [] OTHER -> [kind |-> text, dp |-> "None"]

\* the response frame of a peer that returns the payload section of a
\* built frame: the same bytes under the same key after a return code of
\* 0, the checksum and suffix of the frame's version
Echo(frame) ==
    WireFrame(4 + frame.length, 0,
              CASE frame.hdr = "inner" -> "3.4"
                [] frame.hdr = "prefix" -> "3.3"
                [] OTHER -> "none",
              frame.key, TextOf(frame.body), frame.length - frame.plen)

\* the frames a peer may write to session s in answer to one request: one
\* frame of every text under the session's key, a frame under another key,
\* an acknowledgment with return code 0 or 1, frames whose declared length
\* is too small or too large for their bytes, an acknowledgment followed by
\* a second frame
PeerWrites(s) ==
    LET mine == {PeerFrame(s, s.local_key, FALSE, tx, 0) : tx \in Texts}
                \cup {PeerFrame(s, s.local_key, TRUE, tx, 0) :
                        tx \in {"dps_off", "scalar"}}
        other == PeerFrame(s, WrongKey, TRUE, "dps_on", 0)
        one == PeerFrame(s, s.local_key, TRUE, "dps_on", 0)
        ack == PeerFrame(s, s.local_key, FALSE, "", 0)
        ack1 == PeerFrame(s, s.local_key, FALSE, "", 1)
    IN  {<<w>> : w \in mine \cup {other, one, ack, ack1}}
        \cup {<<[ack EXCEPT !.declen = @ - 1]>>,
              <<[one EXCEPT !.declen = @ - 4]>>,
              <<[one EXCEPT !.declen = @ + 4]>>}
        \cup {<<ack, w>> :
                w \in {ack1, one, PeerFrame(s, s.local_key, TRUE, "bad", 0),
                       PeerFrame(s, s.local_key, FALSE, "dps_off", 0)}}

\* the commands and dictionaries handed to _build_payload: the commands
\* of NO_PROTOCOL_HEADER_CMDS and the control commands 7 and 13
Commands == {3, 4, 5, 7, 9, 10, 13, 16, 18, 64}
Payloads ==
    {EmptyData, StatusData} \cup {ControlData34(v) : v \in {"True", "False"}}
    \cup {ControlData(v) : v \in {"True", "False"}}

\* no frame built, nothing received, nothing parsed yet
NoBuilt ==
    [command |-> 0, data |-> EmptyData,
     frame |-> [seq |-> 0, cmd |-> 0, length |-> 0, plen |-> 0, hdr |-> "none",
                key |-> PyNone,
                body |-> [kind |-> "none", nonce |-> PyNone, tag |-> NoTag,
                          data |-> EmptyData, len |-> 0],
                mac |-> [kind |-> "none", key |-> PyNone],
                nego |-> FALSE, sent |-> FALSE, answered |-> FALSE]]
NoRx ==
    [buf |-> EmptyBuffer, raised |-> FALSE, echo |-> FALSE, want |-> 0,
     plan |-> <<>>]
NoResult == Result("none", "", PyNone)

InitWith(sessions) ==
    /\ dev \in sessions
    /\ pc = "idle"
    /\ arg = 0
    /\ current_state = "None"
    /\ states = <<>>
    /\ target = "None"
    /\ success_count = 0
    /\ outcomes = <<>>
    /\ rounds = 0
    /\ ret = NoRet
    /\ built = NoBuilt
    /\ rx = NoRx
    /\ parsed = NoResult

\* sessions share no state: the single-session specification has one
Init == InitWith([1..1 -> {InitSession(v, TRUE) : v \in Versions}])


\* --------------------------------------------------- calls on one session
\* device.connect(), called as its callers do: when no socket is held
\* (lines 287, 314, 387-388)
Connect(d) ==
    /\ pc = "idle"
    /\ dev[d].socket = "None"
    /\ Room(dev[d], ConnectFrames(dev[d]))
    /\ \E c \in ConnectEnvs(dev[d]) :
          \E r \in {connect(dev[d], c.tcp, c.nego)} :
             /\ dev' = [dev EXCEPT ![d] = r.s]
             /\ ret' = [Return("connect", d, PyBool(r.ok), r.why)
                        EXCEPT !.prev = IF ret.op = "disconnect"
                                        THEN ret.prev ELSE ret.op]
    /\ outcomes' = <<>>
    /\ UNCHANGED <<pc, arg, current_state, states, target, success_count, rounds>>
    /\ UNCHANGED codec

\* device.disconnect()
Disconnect(d) ==
    /\ pc = "idle"
    /\ dev' = [dev EXCEPT ![d] = disconnect(dev[d])]
    /\ ret' = [Return("disconnect", d, "None", "")
                EXCEPT !.prev = CalledFrom(dev[d])]
    /\ outcomes' = <<>>
    /\ UNCHANGED <<pc, arg, current_state, states, target, success_count, rounds>>
    /\ UNCHANGED codec

\* device.status() is entered (line 287)
StatusCall(d) ==
    /\ pc = "idle"
    /\ Room(dev[d], ConnectFrames(dev[d]) + 1)
    /\ pc' = IF dev[d].socket = "None" THEN "status:connect" ELSE "status:exchange"
    /\ arg' = d
    /\ ret' = NoRet
    /\ outcomes' = <<>>
    /\ UNCHANGED <<dev, current_state, states, target, success_count, rounds>>
    /\ UNCHANGED codec

\* line 287: not self.socket, so self.connect()
StatusConnect ==
    /\ pc = "status:connect"
    /\ \E c \in ConnectEnvs(dev[arg]) :
          \E r \in {connect(dev[arg], c.tcp, c.nego)} :
             /\ dev' = [dev EXCEPT ![arg] = r.s]
             /\ IF r.ok
                THEN pc' = "status:exchange" /\ UNCHANGED <<arg, ret>>
                ELSE /\ pc' = "idle"
                     /\ arg' = 0
                     /\ ret' = Return("status", arg, "None", r.why)
    /\ UNCHANGED <<current_state, states, target, success_count, outcomes, rounds>>
    /\ UNCHANGED codec

\* lines 290-311
StatusExchange ==
    /\ pc = "status:exchange"
    /\ \E x \in ExchangeEnvs(dev[arg]) :
          \E r \in {status_body(dev[arg], x)} :
             /\ dev' = [dev EXCEPT ![arg] = r.s]
             /\ ret' = [Return("status", arg, r.value, r.why)
                        EXCEPT !.short = Short(x)]
    /\ pc' = "idle"
    /\ arg' = 0
    /\ UNCHANGED <<current_state, states, target, success_count, outcomes, rounds>>
    /\ UNCHANGED codec

\* device.toggle() is entered (line 314)
ToggleCall(d) ==
    /\ pc = "idle"
    /\ Room(dev[d], ConnectFrames(dev[d]) + 2)
    /\ pc' = IF dev[d].socket = "None" THEN "toggle:connect" ELSE "toggle:status"
    /\ arg' = d
    /\ ret' = NoRet
    /\ outcomes' = <<>>
    /\ UNCHANGED <<dev, current_state, states, target, success_count, rounds>>
    /\ UNCHANGED codec

\* line 314: not self.socket, so self.connect()
ToggleConnect ==
    /\ pc = "toggle:connect"
    /\ \E c \in ConnectEnvs(dev[arg]) :
          \E r \in {connect(dev[arg], c.tcp, c.nego)} :
             /\ dev' = [dev EXCEPT ![arg] = r.s]
             /\ IF r.ok
                THEN pc' = "toggle:status" /\ UNCHANGED <<arg, ret>>
                ELSE /\ pc' = "idle"
                     /\ arg' = 0
                     /\ ret' = Return("toggle", arg, "False", r.why)
    /\ UNCHANGED <<current_state, states, target, success_count, outcomes, rounds>>
    /\ UNCHANGED codec

\* line 318: current_state = self.status(); the socket is held, so status()
\* does not connect
ToggleStatus ==
    /\ pc = "toggle:status"
    /\ \E x \in ExchangeEnvs(dev[arg]) :
          \E r \in {status_body(dev[arg], x)} :
             /\ dev' = [dev EXCEPT ![arg] = r.s]
             /\ current_state' = r.value
    /\ pc' = "toggle:control"
    /\ UNCHANGED <<arg, states, target, success_count, outcomes, rounds, ret>>
    /\ UNCHANGED codec

\* lines 319-349
ToggleControl ==
    /\ pc = "toggle:control"
    /\ \E x \in ExchangeEnvs(dev[arg]) :
          \E r \in {toggle_body(dev[arg], current_state, x)} :
             /\ dev' = [dev EXCEPT ![arg] = r.s]
             /\ ret' = [Return("toggle", arg, r.value, r.why)
                        EXCEPT !.short = Short(x)]
    /\ pc' = "idle"
    /\ arg' = 0
    /\ current_state' = "None"
    /\ UNCHANGED <<states, target, success_count, outcomes, rounds>>
    /\ UNCHANGED codec

\* ----------------------------------------------------- toggle_all_devices
\* the loop index after device i: the next device, or the end of the loop
NextPc(i, again, after) == IF i < Cardinality(DevIds) THEN again ELSE after
NextArg(i) == IF i < Cardinality(DevIds) THEN i + 1 ELSE 1

\* toggle_all_devices(devices) is entered (line 378)
ToggleAllCall ==
    /\ pc = "idle"
    /\ rounds < MaxRounds
    /\ \A d \in DevIds : Room(dev[d], ConnectFrames(dev[d]) + 2)
    /\ rounds' = rounds + 1
    /\ pc' = "all:query"
    /\ arg' = 1
    /\ states' = <<>>
    /\ target' = "None"
    /\ success_count' = 0
    /\ outcomes' = <<>>
    /\ ret' = NoRet
    /\ UNCHANGED <<dev, current_state>>
    /\ UNCHANGED codec

\* lines 387-391: the device holds no socket, connect it
QueryConnect ==
    /\ pc = "all:query"
    /\ dev[arg].socket = "None"
    /\ \E c \in ConnectEnvs(dev[arg]) :
          \E r \in {connect(dev[arg], c.tcp, c.nego)} :
             /\ dev' = [dev EXCEPT ![arg] = r.s]
             /\ IF r.ok
                THEN pc' = "all:status" /\ UNCHANGED <<arg, states>>
                ELSE /\ states' = Append(states, "None")
                     /\ pc' = NextPc(arg, "all:query", "all:decide")
                     /\ arg' = NextArg(arg)
    /\ UNCHANGED <<current_state, target, success_count, outcomes, rounds, ret>>
    /\ UNCHANGED codec

\* lines 393-394: state = device.status(); the socket is held, so status()
\* does not connect
QueryStatus ==
    /\ \/ pc = "all:status"
       \/ pc = "all:query" /\ dev[arg].socket # "None"
    /\ \E x \in ExchangeEnvs(dev[arg]) :
          \E r \in {status_body(dev[arg], x)} :
             /\ dev' = [dev EXCEPT ![arg] = r.s]
             /\ states' = Append(states, r.value)
    /\ pc' = NextPc(arg, "all:query", "all:decide")
    /\ arg' = NextArg(arg)
    /\ UNCHANGED <<current_state, target, success_count, outcomes, rounds, ret>>
    /\ UNCHANGED codec

\* lines 398-409 (states is not read after line 408: the apply loop drops
\* it at its first device)
Decide ==
    /\ pc = "all:decide"
    /\ IF target_state(states) = "None"
       THEN /\ pc' = "idle"
            /\ arg' = 0
            /\ ret' = Return("toggle_all", 0, "False", "no_quorum")
            /\ states' = <<>>
            /\ UNCHANGED target
       ELSE /\ pc' = "all:apply"
            /\ arg' = 1
            /\ target' = target_state(states)
            /\ UNCHANGED <<states, ret>>
    /\ UNCHANGED <<dev, current_state, success_count, outcomes, rounds>>
    /\ UNCHANGED codec

\* what the apply loop did with one device
\* (socket: what the device held when its turn came; raised: the except
\* branch ran; responded: a non-empty response was parsed; error: the
\* parsed result has an "error" entry; cmd, dp: the frame that was built)
Outcome(d, socket, raised, responded, error, counted, cmd, dp) ==
    [d |-> d, socket |-> socket, raised |-> raised, responded |-> responded,
     error |-> error, counted |-> counted, cmd |-> cmd, dp |-> dp]

\* lines 414-415: the device holds no socket, continue
ApplySkip ==
    /\ pc = "all:apply"
    /\ dev[arg].socket = "None"
    /\ outcomes' = Append(outcomes,
          Outcome(arg, "None", FALSE, FALSE, FALSE, FALSE, 0, "None"))
    /\ pc' = NextPc(arg, "all:apply", "all:return")
    /\ arg' = NextArg(arg)
    /\ states' = <<>>
    /\ UNCHANGED <<dev, current_state, target, success_count, rounds, ret>>
    /\ UNCHANGED codec

\* lines 417-449
Apply ==
    /\ pc = "all:apply"
    /\ dev[arg].socket # "None"
    /\ \E x \in ExchangeEnvs(dev[arg]) :
          \E r \in {apply_body(dev[arg], target, x)} :
             /\ dev' = [dev EXCEPT ![arg] = r.s]
             /\ success_count' = IF r.counted THEN success_count + 1
                                 ELSE success_count
             /\ outcomes' = Append(outcomes,
                   Outcome(arg, dev[arg].socket, r.raised, r.responded,
                           r.responded /\ ~r.raised /\ r.result.err # "",
                           r.counted, r.frame.cmd, r.frame.body.data.dp))
    /\ pc' = NextPc(arg, "all:apply", "all:return")
    /\ arg' = NextArg(arg)
    /\ states' = <<>>
    /\ UNCHANGED <<current_state, target, rounds, ret>>
    /\ UNCHANGED codec

\* line 451
ReturnAll ==
    /\ pc = "all:return"
    /\ pc' = "idle"
    /\ arg' = 0
    /\ ret' = Return("toggle_all", 0, PyBool(success_count > 0), "applied")
    /\ target' = "None"
    /\ success_count' = 0
    /\ outcomes' = <<>>
    /\ UNCHANGED <<dev, current_state, states, rounds>>
    /\ UNCHANGED codec

ToggleAll ==
    \/ ToggleAllCall
    \/ QueryConnect
    \/ QueryStatus
    \/ Decide
    \/ ApplySkip
    \/ Apply
    \/ ReturnAll

Next ==
    \/ \E d \in DevIds : Connect(d)
    \/ \E d \in DevIds : Disconnect(d)
    \/ \E d \in DevIds : StatusCall(d)
    \/ StatusConnect
    \/ StatusExchange
    \/ \E d \in DevIds : ToggleCall(d)
    \/ ToggleConnect
    \/ ToggleStatus
    \/ ToggleControl
    \/ ToggleAllCall
    \/ QueryConnect
    \/ QueryStatus
    \/ Decide
    \/ Apply
    \/ ReturnAll

\* any sequence of calls on the session, from its construction; the calls
\* of toggle_all_devices are made with a list of this one device, for which
\* the continue of line 415 cannot be reached (a device that voted holds
\* its socket)
Spec == Init /\ [][Next]_vars

\* main(): the device list of config.json, toggled on every button press
\* (the list holds one device of each version in turn)
FleetVersion(i) ==
    CASE i % 3 = 1 -> 34
      [] i % 3 = 2 -> 33
      [] OTHER -> 31
FleetInit == InitWith({[i \in 1..NDev |-> InitSession(FleetVersion(i), FALSE)]})
FleetSpec == FleetInit /\ [][ToggleAll]_vars

\* ------------------------------------------------------ the codec alone
\* _build_payload, _receive_response and _parse_response called on a
\* session as constructed and as each outcome of connect() leaves it
CodecSessions ==
    LET Left(s) == {connect(s, c.tcp, c.nego).s : c \in ConnectEnvs(s)}
    IN  UNION {{InitSession(v, FALSE)} \cup Left(InitSession(v, FALSE)) :
                v \in Versions}

CodecInit ==
    /\ InitWith({ [i \in 1..1 |-> s] : s \in CodecSessions })
    /\ pc = "idle"

\* frame = self._build_payload(command, data)
BuildFrame ==
    /\ pc = "idle" /\ rx = NoRx /\ Room(dev[1], 1)
    /\ \E command \in Commands, data \in Payloads :
         \E b \in {build_payload(dev[1], command, data)} :
            /\ dev' = [dev EXCEPT ![1] = b.s]
            /\ built' = [command |-> command, data |-> data, frame |-> b.frame]
    /\ UNCHANGED <<pc, arg, current_state, states, target, success_count,
                   outcomes, rounds, ret, rx, parsed>>

\* the value of rx after _receive_response ran on what the peer wrote
Rx(frames, settimeout, plan, echo) ==
    LET Got(r) ==
            [buf |-> Received(frames, r.n), raised |-> r.raised, echo |-> echo,
             want |-> 16 + frames[1].declen, plan |-> plan]
    IN  Got(receive_response(settimeout, frames[1].declen, plan))

\* response = self._receive_response(), the peer having returned the
\* payload section of the frame built last
ReceiveEcho ==
    /\ pc = "idle" /\ rx = NoRx /\ built # NoBuilt
    /\ \E settimeout \in BOOLEAN, plan \in ReadPlans(<<Echo(built.frame)>>) :
         rx' = Rx(<<Echo(built.frame)>>, settimeout, plan, TRUE)
    /\ UNCHANGED <<dev, pc, arg, current_state, states, target, success_count,
                   outcomes, rounds, ret, built, parsed>>

\* response = self._receive_response(), the peer having written frames of
\* its own; the frame built before no longer matters
Receive ==
    /\ pc = "idle" /\ rx = NoRx
    /\ \E frames \in PeerWrites(dev[1]) :
         \E settimeout \in BOOLEAN, plan \in ReadPlans(frames) :
            rx' = Rx(frames, settimeout, plan, FALSE)
    /\ built' = NoBuilt
    /\ UNCHANGED <<dev, pc, arg, current_state, states, target, success_count,
                   outcomes, rounds, ret, parsed>>

\* result = self._parse_response(response), reached "if response:"
Parse ==
    /\ pc = "idle" /\ ~rx.raised /\ rx.buf.n > 0 /\ parsed = NoResult
    /\ parsed' = parse_response(dev[1], rx.buf)
    /\ UNCHANGED <<dev, pc, arg, current_state, states, target, success_count,
                   outcomes, rounds, ret, built, rx>>

CodecNext == BuildFrame \/ ReceiveEcho \/ Receive \/ Parse

CodecSpec == CodecInit /\ [][CodecNext]_vars

\* ================================================================ claims
\* the session as the constructor and disconnect() leave it
Clean(s) ==
    /\ s.socket = "None"
    /\ s.seq = 0
    /\ s.local_key = RealKey
    /\ s.session_key = PyNone
    /\ s.local_nonce = PyNone
    /\ s.remote_nonce = PyNone

\* a reply that is a whole command-4 frame whose encrypted segment
\* decrypts under the real key to at least 48 bytes
DecryptsUnderRealKey(r) ==
    /\ r.recv = "bytes" /\ r.n >= 28 /\ r.cmd = 4
    /\ r.declen = 4 + r.ctlen + 36
    /\ r.key = RealKey /\ r.ptlen >= 48

\* C1: for a version 3.4 session, negotiation with a peer whose command-4
\* reply decrypts under the real key to at least 48 bytes with bytes 16..47
\* equal to hmacSha256(realKey, local_nonce) succeeds (the sends going
\* through), and active_key is then encryptBlock(realKey, local_nonce XOR
\* remote_nonce)[:16], which is not the real key; if bytes 16..47 differ,
\* negotiation fails and active_key is still the real key.
C1_Negotiation ==
    /\ \A d \in DevIds :
        dev[d].version >= 34 /\ dev[d].socket = "None" /\ Room(dev[d], 2) =>
        \A e \in NegoEnvs(dev[d]) :
            LET opened == [dev[d] EXCEPT !.socket = "open"]
                n == negotiate_session_key(opened, e)
                c == connect(dev[d], "ok", e)
                good == hmac_sha256(RealKey, LocalNonce)
            IN  (e.send3 /\ DecryptsUnderRealKey(e.reply)) =>
                   /\ (e.reply.tag = good /\ e.send5) =>
                         /\ n.ok /\ c.ok
                         /\ c.s.local_key =
                              EncryptBlock(RealKey, Xor(LocalNonce, e.reply.nonce))
                         /\ c.s.local_key # RealKey
                         /\ c.s.socket = "open"
                   /\ e.reply.tag # good =>
                         /\ ~n.ok /\ n.why = "hmac_mismatch"
                         /\ n.s.local_key = RealKey
                         /\ ~c.ok /\ c.s.local_key = RealKey
    /\ (ret.op = "connect" /\ ret.why = "negotiated") =>
          /\ dev[ret.d].local_key =
               EncryptBlock(RealKey, Xor(LocalNonce, dev[ret.d].remote_nonce))
          /\ dev[ret.d].local_key # RealKey
    /\ (ret.op = "connect" /\ ret.why = "hmac_mismatch") =>
          dev[ret.d].local_key = RealKey

\* C1 witness: a connect() has negotiated, the active key is the derived one
C1_Witness ==
    \E d \in DevIds :
        /\ ret.op = "connect" /\ ret.d = d /\ ret.why = "negotiated"
        /\ dev[d].remote_nonce \in Nonces
        /\ dev[d].local_key =
             EncryptBlock(RealKey, Xor(LocalNonce, dev[d].remote_nonce))
        /\ dev[d].local_key # RealKey

C3_NoCommandBeforeNegotiation ==
    \A d \in DevIds :
        dev[d].version >= 34 =>
            \A i \in 1..Len(dev[d].log) :
                dev[d].log[i].cmd \in {13, 16} => dev[d].log[i].nego

\* C3 failing input: a version 3.4 session whose connect() failed at the
\* TCP level, then status(): a command-16 frame is built with no
\* negotiation on the socket the session still holds
C3_FailingInput ==
    \E d \in DevIds :
        /\ dev[d].version >= 34 /\ dev[d].socket = "failed"
        /\ ret.op = "status" /\ ret.d = d
        /\ Len(dev[d].log) >= 1 /\ dev[d].log[1].cmd = 16

\* C4: the sequence number grows by exactly one with every frame built, so
\* the frames of one connection carry 1, 2, 3, ... and no two of them the
\* same number; the counter is 0 whenever the session holds no socket, and
\* it decreases only in a step that leaves the session as disconnect()
\* leaves it.
C4_Sequence ==
    /\ [](\A d \in DevIds :
            /\ dev[d].seq = Len(dev[d].log)
            /\ \A i \in 1..Len(dev[d].log) : dev[d].log[i].seq = i
            /\ \A i, j \in 1..Len(dev[d].log) :
                  dev[d].log[i].seq = dev[d].log[j].seq => i = j
            /\ dev[d].socket = "None" => dev[d].seq = 0)
    /\ [][\A d \in DevIds :
            /\ dev'[d].seq < dev[d].seq =>
                  dev'[d] = InitSession(dev[d].version, dev[d].trace)
            /\ dev'[d].seq >= dev[d].seq =>
                  dev'[d].seq - dev[d].seq = Len(dev'[d].log) - Len(dev[d].log)
         ]_vars

\* C4 witness: a toggle() returned after its status and control frames went
\* out on one connection
C4_Witness ==
    \E d \in DevIds :
        /\ ret.op = "toggle" /\ ret.d = d /\ ret.why = "ok"
        /\ dev[d].seq >= 2
        /\ \A i \in 1..Len(dev[d].log) : dev[d].log[i].sent

\* the reasons for which _negotiate_session_key returns False
NegotiationFailures ==
    {"send_error", "recv_error", "no_response", "unexpected_command",
     "decrypt_error", "payload_too_short", "hmac_mismatch"}

\* the states a disconnect() was called in
DisconnectedFrom ==
    {"disconnect_negotiated", "disconnect_open", "disconnect_failed",
     "disconnect_unconnected"}

\* C5: disconnect() leaves the session with no socket, no session key, no
\* nonces, the counter at 0 and the real key active, from whatever state
\* it was called (connect() calls it when the negotiation failed); a
\* connect() after it on a version 3.4 session runs the whole negotiation,
\* its command-3 and command-5 frames encrypted and authenticated under
\* the real key.
C5_DisconnectResets ==
    /\ ret.op = "disconnect" =>
          dev[ret.d] = InitSession(dev[ret.d].version, dev[ret.d].trace)
    /\ ret.op = "connect" /\ ret.why \in NegotiationFailures =>
          dev[ret.d] = InitSession(dev[ret.d].version, dev[ret.d].trace)
    /\ \A d \in DevIds : \A i \in 1..Len(dev[d].log) :
          dev[d].log[i].cmd \in {3, 5} =>
              /\ dev[d].log[i].key = RealKey
              /\ dev[d].log[i].mac = [kind |-> "hmac", key |-> RealKey]
              /\ ~dev[d].log[i].nego
    /\ (/\ ret.op = "connect" /\ ret.prev \in DisconnectedFrom
        /\ ret.value = "True" /\ dev[ret.d].version >= 34) =>
          LET s == dev[ret.d]
          IN  /\ Len(s.log) = 2 /\ s.seq = 2
              /\ s.log[1].cmd = 3 /\ s.log[1].sent /\ s.log[1].answered
              /\ s.log[1].body.nonce = LocalNonce
              /\ s.log[2].cmd = 5 /\ s.log[2].sent
              /\ s.log[2].body.tag = hmac_sha256(RealKey, s.remote_nonce)
              /\ s.negotiated
              /\ s.local_key =
                   EncryptBlock(RealKey, Xor(LocalNonce, s.remote_nonce))

\* C5 witness: a connect() that follows the disconnect() of a negotiated
\* session has negotiated again, its two handshake frames under the real key
C5_Witness ==
    /\ ret.op = "connect" /\ ret.prev = "disconnect_negotiated"
    /\ ret.why = "negotiated"
    /\ dev[ret.d].log[1].key = RealKey /\ dev[ret.d].log[2].key = RealKey
    /\ dev[ret.d].local_key # RealKey

\* the known statuses among the statuses collected
Votes(sts) == {sts[i] : i \in 1..Len(sts)} \ {"None"}

\* C6: toggle_all_devices picks its target from the known statuses only: a
\* device whose connection failed adds an unknown status; with no known
\* status the call returns false and no session is touched (no control
\* frame is built or sent); if all known statuses are true the target is
\* false, if all are false it is true, and if they differ it is true.
C6_TargetSelection ==
    [][/\ pc = "all:decide" =>
            /\ Votes(states) = {} =>
                  /\ pc' = "idle"
                  /\ ret'.op = "toggle_all" /\ ret'.value = "False"
                  /\ dev' = dev /\ outcomes' = <<>>
            /\ Votes(states) # {} => pc' = "all:apply" /\ arg' = 1
            /\ Votes(states) = {"True"} => target' = "False"
            /\ Votes(states) = {"False"} => target' = "True"
            /\ Cardinality(Votes(states)) > 1 => target' = "True"
       /\ (pc = "all:query" /\ dev[arg].socket = "None"
             /\ dev'[arg].socket # "open") =>
            states' = Append(states, "None")
       /\ pc = "all:apply" => target' = target
      ]_vars

\* C6 witness: the statuses collected differ and the target chosen is on
C6_Witness ==
    /\ pc = "all:apply" /\ arg = 1
    /\ Votes(states) = {"True", "False"}
    /\ target = "True"

\* C7: in the apply phase every session that holds a socket when its turn
\* comes gets exactly one control frame with the chosen target, whatever
\* happened to the sessions before it; a session whose exchange raised is
\* left disconnected and is not counted; a session is counted exactly when
\* its response was parsed without an error entry; the call returns true
\* exactly when at least one session was counted.
C7_ApplyPhase ==
    /\ [](pc \in {"all:apply", "all:return"} =>
            /\ Len(outcomes) =
                 (IF pc = "all:return" THEN Cardinality(DevIds) ELSE arg - 1)
            /\ \A k \in 1..Len(outcomes) :
                 LET o == outcomes[k]
                 IN  /\ o.d = k
                     /\ o.socket # "None" =>
                           o.cmd = ControlCommand(dev[k]) /\ o.dp = target
                     /\ o.socket = "None" => o.cmd = 0 /\ ~o.counted
                     /\ o.raised => ~o.counted /\ Clean(dev[k])
                     /\ o.counted <=> (o.responded /\ ~o.raised /\ ~o.error)
            /\ success_count =
                 Cardinality({k \in 1..Len(outcomes) : outcomes[k].counted}))
    /\ [][/\ (pc = "all:apply" /\ dev[arg].socket # "None") =>
               /\ outcomes' = Append(outcomes, outcomes'[arg])
               /\ outcomes'[arg].socket = dev[arg].socket
               /\ \/ dev'[arg].seq = dev[arg].seq + 1
                  \/ outcomes'[arg].raised /\ Clean(dev'[arg])
               /\ \A k \in DevIds \ {arg} : dev'[k] = dev[k]
          /\ pc = "all:return" =>
               /\ ret'.op = "toggle_all"
               /\ ret'.value = "True" <=>
                     \E k \in 1..Len(outcomes) :
                        /\ outcomes[k].responded
                        /\ ~outcomes[k].raised /\ ~outcomes[k].error
         ]_vars

\* C7 witness: the exchange of the first device raised, the second device
\* still got its frame and was counted
C7_Witness ==
    /\ pc = "all:return"
    /\ outcomes[1].raised /\ ~outcomes[1].counted
    /\ outcomes[2].socket = "open" /\ outcomes[2].counted
    /\ outcomes[2].dp = target

\* C8: a call whose response did not parse leaves the session disconnected
\* and returns unknown or failure.
C8_ParseFailureDisconnects ==
    (ret.op \in {"status", "toggle"} /\ ret.why = "parse_error") =>
        /\ Clean(dev[ret.d])
        /\ ret.value \in {"None", "False"}

\* C8 failing input: status() on an open connection got a response that
\* does not parse, and the session still holds the socket
C8_FailingInput ==
    /\ ret.op = "status" /\ ret.why = "parse_error"
    /\ dev[ret.d].socket = "open" /\ dev[ret.d].seq > 0

\* C9: every call that fails for a connection error, a negotiation
\* failure, a send or receive error or a missing response leaves the
\* session with no socket, the counter at 0 and the real key active.
C9_FailureLeavesSessionClean ==
    (/\ ret.op \in {"connect", "status", "toggle"}
     /\ ret.why \in NegotiationFailures \cup {"tcp_error"}) =>
        Clean(dev[ret.d])

\* C9 failing input: connect() failed at the TCP level and the session
\* keeps the socket object
C9_FailingInput ==
    /\ ret.op = "connect" /\ ret.why = "tcp_error"
    /\ dev[ret.d].socket = "failed"

\* C10: on one connection a frame is sent only when every frame sent
\* before it has had its response received, the handshake frames 3 and 5
\* included, also after a receive that returned nothing.
C10_NoPipelining ==
    \A d \in DevIds : \A i, j \in 1..Len(dev[d].log) :
        (i < j /\ dev[d].log[i].sent /\ dev[d].log[j].sent) =>
            dev[d].log[i].answered

\* C10 failing input: a status frame was sent on a connection on which an
\* earlier status frame is still unanswered
C10_FailingInput ==
    \E d \in DevIds : \E i, j \in 1..Len(dev[d].log) :
        /\ i < j
        /\ dev[d].log[i].cmd \in {10, 16} /\ dev[d].log[i].sent
        /\ ~dev[d].log[i].answered
        /\ dev[d].log[j].cmd \in {10, 16} /\ dev[d].log[j].sent

\* the response holds every byte of the echo of the frame built last, and
\* _parse_response has run on it
EchoParsed ==
    /\ built # NoBuilt /\ rx.echo /\ ~rx.raised /\ parsed # NoResult
    /\ rx.buf.n = ByteLen(Echo(built.frame))

\* C11 (as amended): for every version, every command code other than 3
\* and 5 and every dictionary P, when a peer with the same active key
\* returns a response whose payload section is the one _build_payload
\* produced for P, _parse_response returns P without an error entry; the
\* echoed payload section has the length _build_payload declared.
C11_RoundTrip ==
    EchoParsed /\ built.command \notin {3, 5}
        => /\ PayLen(Echo(built.frame)) = built.frame.plen
           /\ parsed.err = ""
           /\ DataOf(parsed.json) = built.data

\* a version 3.3 control frame with its 15-byte tag came back as the
\* dictionary it was built from
C11_Witness ==
    /\ EchoParsed /\ built.command = 7 /\ dev[1].version = 33
    /\ built.frame.hdr = "prefix" /\ built.data = ControlData("True")
    /\ parsed.err = "" /\ DataOf(parsed.json) = built.data

\* C11 as stated, for every command code: it fails on commands 3 and 5,
\* whose frames carry the nonce and the HMAC instead of P
C11_RoundTripEveryCommand ==
    EchoParsed => parsed.err = "" /\ DataOf(parsed.json) = built.data

\* _parse_response has run on a buffer that starts with a whole
\* acknowledgment-only frame of the session's version
AckParsed ==
    /\ ~rx.echo /\ ~rx.raised /\ parsed # NoResult
    /\ rx.buf.n >= ByteLen(rx.buf.frames[1])
    /\ rx.buf.frames[1].text = ""
    /\ rx.buf.frames[1].declen = 4 + SuffixLen(dev[1])

\* C12: when an acknowledgment-only frame is followed by a second complete
\* frame, _parse_response returns what it returns for the second frame
\* alone, whatever the version and the size of the second frame; when
\* nothing follows the acknowledgment it returns the bare success result
\* with the frame's return code.
C12_AckThenFrame ==
    AckParsed =>
        IF Len(rx.buf.frames) = 2
        THEN rx.buf.n = TotalLen(rx.buf.frames)
                => parsed = parse_response(dev[1],
                                Buffer(<<rx.buf.frames[2]>>,
                                       ByteLen(rx.buf.frames[2])))
        ELSE parsed = Result("", "ack", rx.buf.frames[1].retcode)

\* a version 3.3 acknowledgment with return code 0 followed by a second
\* frame of exactly 28 bytes with return code 1: the result carries the
\* return code of the first frame
C12_FailingInput ==
    /\ AckParsed /\ dev[1].version = 33 /\ Len(rx.buf.frames) = 2
    /\ rx.buf.n = TotalLen(rx.buf.frames)
    /\ ByteLen(rx.buf.frames[2]) = 28 /\ rx.buf.frames[2].retcode = 1
    /\ parsed = Result("", "ack", 0)

\* the frames status() built on the version 3.3 sessions: command 10
\* carrying the gwId/devId dictionary
StatusFrames33 ==
    {f \in UNION {{dev[d].log[i] : i \in 1..Len(dev[d].log)} :
                    d \in {e \in DevIds : dev[e].version = 33}} :
        f.cmd = 10}

\* len(_encrypt(json.dumps({"gwId": ..., "devId": ...}))): the dictionary
\* text padded to the next multiple of 16
StatusCipherLen == ((25 + 2 * DevIdLen) \div 16 + 1) * 16

\* C13 (as amended): the status-query frame that status() builds for a
\* version 3.3 session carries no version header, and its declared-length
\* field equals the length of the encrypted payload plus 8.
C13_StatusFrameLength ==
    \A f \in StatusFrames33 :
        /\ f.body.data = StatusData /\ f.hdr = "none"
        /\ f.plen = StatusCipherLen
        /\ f.length = StatusCipherLen + 8

\* a status() on a version 3.3 session sent its frame and returned a value
C13_Witness ==
    /\ ret.op = "status" /\ ret.why = "ok"
    /\ \E f \in StatusFrames33 : f.sent /\ f.length = StatusCipherLen + 8

\* C13 as stated: the declared length counts a 15-byte version header
C13_StatusFrameLengthWithHeader ==
    \A f \in StatusFrames33 : f.length = StatusCipherLen + 15 + 8

\* C14: whichever step of the negotiation fails (a send or receive error,
\* no response or one under 28 bytes, a command other than 4, a decrypt
\* error, decrypted content under 48 bytes, an HMAC mismatch), connect()
\* returns failure with the connection closed and the session as
\* disconnect() leaves it; so no version 3.4 session holds an open
\* connection that is not negotiated, and every frame sent on a version
\* 3.4 connection after the handshake was built on a negotiated session.
C14_FailedNegotiationCloses ==
    /\ \A d \in DevIds :
        dev[d].version >= 34 /\ dev[d].socket = "None" /\ Room(dev[d], 2) =>
            /\ \A e \in NegoEnvs(dev[d]) :
                  \A c \in {connect(dev[d], "ok", e)} :
                      ~c.ok => /\ c.why \in NegotiationFailures
                               /\ Clean(c.s) /\ ~c.s.negotiated
                               /\ c.s = InitSession(dev[d].version, dev[d].trace)
            /\ \A why \in NegotiationFailures :
                  \E e \in NegoEnvs(dev[d]) :
                      connect(dev[d], "ok", e).why = why
    /\ (ret.op = "connect" /\ ret.why \in NegotiationFailures) =>
          Clean(dev[ret.d]) /\ dev[ret.d].log = <<>>
    /\ \A d \in DevIds :
          /\ (dev[d].version >= 34 /\ dev[d].socket = "open") => dev[d].negotiated
          /\ \A i \in 1..Len(dev[d].log) :
                (/\ dev[d].version >= 34 /\ dev[d].log[i].sent
                 /\ dev[d].log[i].cmd \notin {3, 5}) => dev[d].log[i].nego

\* a connect() whose peer sent a wrong HMAC tag returned False with the
\* connection closed
C14_Witness ==
    /\ ret.op = "connect" /\ ret.why = "hmac_mismatch" /\ ret.value = "False"
    /\ dev[ret.d].socket = "None" /\ dev[ret.d].seq = 0

\* the positions of the command-c frames in the frames of session s
FramesOf(s, c) == {i \in 1..Len(s.log) : s.log[i].cmd = c}

\* C15: the negotiation keeps its order.  The command-5 frame is built
\* and sent only after the command-3 frame was sent and answered by a
\* command-4 response of at least 28 bytes whose tag equals
\* hmacSha256(realKey, local_nonce); the active key is replaced only after
\* the command-5 frame was sent; the command-3 and command-5 frames are
\* encrypted and authenticated under the real key, every later frame of
\* the connection under the session key.
C15_NegotiationOrder ==
    /\ \A d \in DevIds :
        dev[d].version >= 34 /\ dev[d].socket = "None" /\ Room(dev[d], 2) =>
            \A e \in NegoEnvs(dev[d]) :
                \A n \in {negotiate_session_key(
                             [dev[d] EXCEPT !.socket = "open"], e)} :
                    /\ FramesOf(n.s, 5) # {} =>
                          /\ e.send3 /\ e.reply.recv = "bytes"
                          /\ e.reply.n >= 28 /\ e.reply.cmd = 4
                          /\ DecryptReply([dev[d] EXCEPT !.local_nonce = LocalNonce],
                                          e.reply).tag
                               = hmac_sha256(RealKey, LocalNonce)
                          /\ FramesOf(n.s, 5) = {2} /\ FramesOf(n.s, 3) = {1}
                          /\ n.s.log[1].sent /\ n.s.log[1].answered
                    /\ n.s.local_key # RealKey =>
                          n.ok /\ FramesOf(n.s, 5) = {2} /\ n.s.log[2].sent
                    /\ ~e.send5 => ~n.ok /\ n.s.local_key = RealKey
    /\ \A d \in DevIds : \A i \in 1..Len(dev[d].log) :
          \A f \in {dev[d].log[i]} :
              /\ f.cmd \in {3, 5} =>
                    /\ f.key = RealKey
                    /\ f.mac = [kind |-> "hmac", key |-> RealKey]
              /\ f.cmd = 3 => i = 1
              /\ f.cmd = 5 => /\ i = 2 /\ dev[d].log[1].cmd = 3
                              /\ dev[d].log[1].sent /\ dev[d].log[1].answered
              /\ (dev[d].version >= 34 /\ dev[d].socket = "open" /\ i > 2) =>
                    /\ dev[d].log[2].cmd = 5 /\ dev[d].log[2].sent
                    /\ f.key = dev[d].session_key /\ f.key # RealKey
                    /\ f.mac = [kind |-> "hmac", key |-> dev[d].session_key]
    /\ \A d \in DevIds :
          dev[d].local_key # RealKey =>
              /\ Len(dev[d].log) >= 2
              /\ dev[d].log[2].cmd = 5 /\ dev[d].log[2].sent
              /\ dev[d].local_key = dev[d].session_key

\* a status frame followed the handshake on a version 3.4 connection: the
\* first two frames under the real key, the third under the session key
C15_Witness ==
    \E d \in DevIds :
        /\ dev[d].version >= 34 /\ dev[d].socket = "open" /\ Len(dev[d].log) >= 3
        /\ dev[d].log[1].cmd = 3 /\ dev[d].log[2].cmd = 5
        /\ dev[d].log[2].key = RealKey
        /\ dev[d].log[3].cmd = 16 /\ dev[d].log[3].sent
        /\ dev[d].log[3].key = dev[d].session_key

\* len(_pad(data)) written out: the next multiple of 16 above n
Padded(n) == (n \div 16 + 1) * 16

\* C16: in every frame _build_payload produces the declared length is the
\* length of the payload section plus 36 for version 3.4 and plus 8 for
\* the other versions; the payload section carries the 15-byte version tag
\* exactly when the version is 3.3 or 3.4 and the command is not one of
\* 3, 4, 5, 9, 10, 16, 18, 64: inside the encrypted data for 3.4, as an
\* unencrypted prefix for 3.3; below 3.3 the payload is neither tagged
\* nor encrypted.
C16_FrameLayout ==
    built # NoBuilt =>
        \A f \in {built.frame} :
            LET v == dev[1].version
                tagged == /\ v \in {33, 34}
                          /\ built.command \notin {3, 4, 5, 9, 10, 16, 18, 64}
            IN  /\ f.cmd = built.command
                /\ f.length = f.plen + (IF v = 34 THEN 36 ELSE 8)
                /\ f.hdr # "none" <=> tagged
                /\ (tagged /\ v = 34) =>
                      /\ f.hdr = "inner" /\ f.key = dev[1].local_key
                      /\ f.plen = Padded(15 + f.body.len)
                /\ (tagged /\ v = 33) =>
                      /\ f.hdr = "prefix" /\ f.key = dev[1].local_key
                      /\ f.plen = 15 + Padded(f.body.len)
                /\ (~tagged /\ v >= 33) =>
                      /\ f.key = dev[1].local_key
                      /\ f.plen = Padded(f.body.len)
                /\ v < 33 =>
                      /\ f.key = PyNone /\ f.plen = f.body.len

\* a version 3.4 control frame: tag inside the encrypted data, 36 bytes of
\* trailer declared
C16_Witness ==
    /\ built # NoBuilt /\ dev[1].version = 34 /\ built.command = 7
    /\ built.data = ControlData34("True")
    /\ built.frame.hdr = "inner"
    /\ built.frame.length = built.frame.plen + 36

\* the declared length of the first frame of the buffer does not fit: it
\* is smaller than return code plus checksum and suffix, or larger than
\* the bytes present after the 16-byte header
Inconsistent ==
    /\ rx.buf.n >= 20
    /\ \/ rx.buf.frames[1].declen < 4 + SuffixLen(dev[1])
       \/ rx.buf.frames[1].declen > rx.buf.n - 16

\* C17: _parse_response returns the "Response too short" error for every
\* buffer under 20 bytes, and an error, never a success result or parsed
\* content, for every buffer whose declared length is inconsistent.
C17_MalformedRejected ==
    (parsed # NoResult /\ ~rx.raised) =>
        /\ rx.buf.n < 20 => parsed.err = "Response too short"
        /\ Inconsistent => parsed.err # ""

\* a version 3.3 frame received without its last byte (the declared
\* length is one more than the bytes after the header) parsed to its
\* content; or a 28-byte frame that declares 11 bytes, less than return
\* code, checksum and suffix, parsed to the bare success result
C17_FailingInput ==
    /\ parsed # NoResult /\ Inconsistent /\ dev[1].version = 33
    /\ \/ /\ rx.buf.frames[1].declen = rx.buf.n - 16 + 1
          /\ parsed = Result("", "dps_on", 0)
       \/ /\ rx.buf.frames[1].declen = 11 /\ rx.buf.n = 28
          /\ parsed = Result("", "ack", 0)

\* C18: when _receive_response returned fewer bytes than 16 plus the
\* declared length of the frame, status() returns unknown, toggle() returns
\* False and toggle_all_devices does not count the device as a success.
C18_TruncatedRejected ==
    /\ (ret.short /\ ret.op = "status") => ret.value = "None"
    /\ (ret.short /\ ret.op = "toggle") => ret.value = "False"
    /\ \A d \in DevIds :
          (dev[d].socket = "open" /\ Room(dev[d], 1)) =>
              \A x \in {y \in ExchangeEnvs(dev[d]) : Short(y)} :
                  ~apply_body(dev[d], "True", x).counted

\* a status() whose response lacked the last byte of its frame returned
\* the datapoint value
C18_FailingInput ==
    /\ ret.op = "status" /\ ret.short /\ ret.why = "ok" /\ ret.value = "True"
    /\ dev[ret.d].socket = "open"

RECURSIVE Lead(_)
\* the bytes a plan of reads delivers before its first read that raises
\* or finds the peer closed
Lead(reads) ==
    IF reads = <<>> \/ Head(reads) <= 0 THEN 0
    ELSE Head(reads) + Lead(Tail(reads))

\* what C19 says of the reads: the call returns the bytes of the first
\* read when they are fewer than 16; otherwise it stops with 16 plus the
\* declared length or more, or with everything that arrived before the
\* peer closed or a read raised
ReadsEndTheCall ==
    (rx # NoRx /\ ~rx.raised) =>
        /\ rx.buf.n <= Lead(rx.plan)
        /\ Lead(rx.plan) = 0 => rx.buf = EmptyBuffer
        /\ (Lead(rx.plan) > 0 /\ rx.plan[1] < 16) => rx.buf.n = rx.plan[1]
        /\ (Lead(rx.plan) > 0 /\ rx.plan[1] >= 16) =>
              \/ rx.buf.n >= rx.want
              \/ rx.buf.n = Lead(rx.plan)

\* C19: _receive_response always returns, never raises: with at least 16
\* bytes from the first read it reads on until 16 plus the declared
\* length are buffered, the peer closes or a read times out; a timeout or
\* socket error ends the call with the bytes buffered so far.
C19_ReceiveReturns ==
    rx # NoRx => ~rx.raised /\ ReadsEndTheCall

\* settimeout raised before response was bound: the call raised
C19_FailingInput ==
    /\ rx # NoRx /\ rx.raised /\ rx.buf = EmptyBuffer /\ rx.plan # <<>>

\* the call that returned last computed its result from a parsed response
FromResponse ==
    /\ pc = "idle" /\ ret.op \in {"status", "toggle"}
    /\ ret.why \in {"ok", "parse_error", "no_datapoint"}
    /\ dev[ret.d].log # <<>>

\* C20: the result that status() or toggle() returns is computed from the
\* peer's response to the frame this same call sent: when the call
\* returns a result taken from a response, the frame it sent last is the
\* one that response answered, never an earlier frame of the connection.
C20_OwnResponse ==
    FromResponse =>
        \A s \in {dev[ret.d]} :
            s.log[Len(s.log)].sent /\ s.log[Len(s.log)].answered

\* a status() returned a datapoint value from the late response to an
\* earlier frame, whose call had timed out; its own frame is unanswered
C20_FailingInput ==
    /\ FromResponse /\ ret.op = "status" /\ ret.value = "True"
    /\ \E s \in {dev[ret.d]} :
          /\ s.log[Len(s.log)].sent /\ ~s.log[Len(s.log)].answered
          /\ \E i \in 1..(Len(s.log) - 1) :
                s.log[i].cmd \notin {3, 5} /\ s.log[i].answered

====
